---- MODULE Spec2Model ----
(***************************************************************************)
(* The AT command front end of the SiK multipoint radio firmware           *)
(* (Firmware/radio/at.c): the line editor at_input, the "+++" escape       *)
(* detector at_plus_detector with its 100 Hz timer at_timer, the numeric   *)
(* lexer at_parse_number and the command dispatcher at_command with its    *)
(* sub-handlers.                                                           *)
(*                                                                         *)
(* Characters are one-element tokens (strings); the command buffer is the  *)
(* array at_cmd[0 .. AT_CMD_MAXLEN] and keeps its stale contents, as the   *)
(* C array does.  32-bit values are pairs <<hi, lo>> of 16-bit halves.     *)
(***************************************************************************)
EXTENDS Integers, Sequences, FiniteSets, TLC

\* ------------------------------------------------------------ characters

NUL == "NUL"
CR == "CR"
BS == "BS"
DEL == "DEL"
BEL == "BEL"

Digits == <<"0", "1", "2", "3", "4", "5", "6", "7", "8", "9">>

UpperCase ==
    <<"A", "B", "C", "D", "E", "F", "G", "H", "I", "J", "K", "L", "M",
      "N", "O", "P", "Q", "R", "S", "T", "U", "V", "W", "X", "Y", "Z">>

LowerCase ==
    <<"a", "b", "c", "d", "e", "f", "g", "h", "i", "j", "k", "l", "m",
      "n", "o", "p", "q", "r", "s", "t", "u", "v", "w", "x", "y", "z">>

Punct == {" ", "&", "+", ",", "=", "?"}

Range(s) == {s[i] : i \in DOMAIN s}

Control == {NUL, CR, BS, DEL, BEL}

Printable == Range(Digits) \cup Range(UpperCase) \cup Range(LowerCase) \cup Punct

Char == Printable \cup Control

isdigit(c) == c \in Range(Digits)

isprint(c) == c \in Printable

toupper(c) ==
    IF c \in Range(LowerCase)
    THEN UpperCase[CHOOSE i \in DOMAIN LowerCase : LowerCase[i] = c]
    ELSE c

\* c - '0' for a digit character
DigitVal(c) == (CHOOSE i \in DOMAIN Digits : Digits[i] = c) - 1

\* ------------------------------------------------------------- constants

\* size of the command buffer is AT_CMD_MAXLEN + 1 (set by a header)
AT_CMD_MAXLEN == 10

\* number of S registers (set by a header)
PARAM_MAX == 3

\* number of user pins (set by a header)
PIN_MAX == 2

ATP_WAIT_FOR_IDLE == 0
ATP_WAIT_FOR_PLUS1 == 1
ATP_WAIT_FOR_PLUS2 == 2
ATP_WAIT_FOR_PLUS3 == 3
ATP_WAIT_FOR_ENABLE == 4

ATP_COUNT_1S == 100

\* the two test-mode bits of at_testmode
AT_TEST_RSSI == 1
AT_TEST_TDM == 2

\* build configuration: the calibration extension of at_plus is compiled in
BOARD_rfd900a == TRUE

\* --------------------------------------------------------------- numbers

Half == 256 * 256

\* a uint32_t as <<hi, lo>>
U32Zero == <<0, 0>>

\* reg * 10 + d that loses the carry out of the low half
U32MulAdd_no_carry(reg, d) ==
    <<(reg[1] * 10) % Half, (reg[2] * 10 + d) % Half>>

\* reg * 10 + d, modulo 2^32
U32MulAdd(reg, d) ==
    LET lo == reg[2] * 10 + d
    IN  <<(reg[1] * 10 + (lo \div Half)) % Half, lo % Half>>

\* (uint8_t) v
U8(v) == v[2] % 256

\* (uint16_t) v
U16(v) == v[2]

U32Str(v) == <<ToString(v[1]), ToString(v[2])>>

\* ----------------------------------------------------------------- state

VARIABLES
    at_cmd,           \* the command buffer, [0 .. AT_CMD_MAXLEN -> Char]
    at_cmd_len,
    idx,              \* the parse cursor
    at_mode_active,
    at_cmd_ready,
    at_testmode,
    at_plus_state,
    at_plus_counter,
    param,            \* the parameter store behind param_get / param_set
    halted,           \* the dispatcher entered one of its for (;;) loops
    out,              \* what the last handler wrote to the host
    calls,            \* the collaborator calls the last handler made
    host,             \* the bytes the host has still to send of its line
    q_ticks,          \* observer: ticks since the last received byte (capped)
    q_plus,           \* observer: '+' bytes received since the last other byte (capped)
    q_src,            \* observer: command mode was off at the last byte other than '+'
    q_lead,           \* observer: a silent second preceded the first '+' of the run
    q_quiet,          \* observer: a silent second lies between the last other byte and the last '+'
    q_wide,           \* observer: every gap between two '+' of the run exceeded a second
    q_run,            \* observer: printable bytes at_input took in a row (capped)
    q_line,           \* observer: the command line the host typed last
    q_ato,            \* observer: how far an escape sequence after ATO has got
    typed             \* the lines the host has typed in a command session

prog == <<at_cmd, at_cmd_len, idx, at_mode_active, at_cmd_ready, at_testmode,
          at_plus_state, at_plus_counter, param, halted>>

vars == <<at_cmd, at_cmd_len, idx, at_mode_active, at_cmd_ready, at_testmode,
          at_plus_state, at_plus_counter, param, halted, out, calls, host,
          q_ticks, q_plus, q_src, q_lead, q_quiet, q_wide, q_run, q_line, q_ato,
          typed>>

obs == <<q_ticks, q_plus, q_src, q_lead, q_quiet, q_wide>>

BufIdx == 0 .. AT_CMD_MAXLEN

\* the C string that starts at at_cmd[i]
RECURSIVE CStr(_, _)
CStr(buf, i) ==
    IF i > AT_CMD_MAXLEN \/ buf[i] = NUL THEN <<>>
    ELSE <<buf[i]>> \o CStr(buf, i + 1)

\* strcmp(at_cmd + i, s) == 0
StrEq(buf, i, s) == CStr(buf, i) = s

\* ------------------------------------------------------------ at_input

\* what at_input(c) writes to the host
at_input_echo(c) ==
    CASE c = CR -> <<<<"putchar", "LF">>>>
      [] c \in {BS, DEL} ->
            IF at_cmd_len > 0
            THEN <<<<"putchar", BS>>, <<"putchar", " ">>, <<"putchar", BS>>>>
            ELSE <<>>
      [] OTHER ->
            IF at_cmd_len < AT_CMD_MAXLEN /\ isprint(c)
            THEN <<<<"putchar", toupper(c)>>>>
            ELSE <<>>

\* at_input that stores the character as typed, without toupper
at_input_no_toupper(c) ==
    /\ out' = at_input_echo(c)
    /\ CASE c = CR ->
            /\ at_cmd' = [at_cmd EXCEPT ![at_cmd_len] = NUL]
            /\ at_cmd_ready' = TRUE
            /\ UNCHANGED <<at_cmd_len, at_mode_active>>
         [] c \in {BS, DEL} ->
            /\ at_cmd_len' = IF at_cmd_len > 0 THEN at_cmd_len - 1 ELSE at_cmd_len
            /\ UNCHANGED <<at_cmd, at_cmd_ready, at_mode_active>>
         [] OTHER ->
            IF at_cmd_len < AT_CMD_MAXLEN
            THEN IF isprint(c)
                 THEN /\ at_cmd' = [at_cmd EXCEPT ![at_cmd_len] = c]
                      /\ at_cmd_len' = at_cmd_len + 1
                      /\ UNCHANGED <<at_cmd_ready, at_mode_active>>
                 ELSE UNCHANGED <<at_cmd, at_cmd_len, at_cmd_ready, at_mode_active>>
            ELSE /\ at_mode_active' = FALSE
                 /\ at_cmd_len' = 0
                 /\ UNCHANGED <<at_cmd, at_cmd_ready>>

\* at_input whose CR sets the ready flag without terminating the buffer
at_input_no_terminator(c) ==
    /\ out' = at_input_echo(c)
    /\ CASE c = CR ->
            /\ at_cmd_ready' = TRUE
            /\ UNCHANGED <<at_cmd, at_cmd_len, at_mode_active>>
         [] c \in {BS, DEL} ->
            /\ at_cmd_len' = IF at_cmd_len > 0 THEN at_cmd_len - 1 ELSE at_cmd_len
            /\ UNCHANGED <<at_cmd, at_cmd_ready, at_mode_active>>
         [] OTHER ->
            IF at_cmd_len < AT_CMD_MAXLEN
            THEN IF isprint(c)
                 THEN /\ at_cmd' = [at_cmd EXCEPT ![at_cmd_len] = toupper(c)]
                      /\ at_cmd_len' = at_cmd_len + 1
                      /\ UNCHANGED <<at_cmd_ready, at_mode_active>>
                 ELSE UNCHANGED <<at_cmd, at_cmd_len, at_cmd_ready, at_mode_active>>
            ELSE /\ at_mode_active' = FALSE
                 /\ at_cmd_len' = 0
                 /\ UNCHANGED <<at_cmd, at_cmd_ready>>

\* at_input with the bounds test off by one
at_input_off_by_one(c) ==
    /\ out' = at_input_echo(c)
    /\ CASE c = CR ->
            /\ at_cmd' = [at_cmd EXCEPT ![at_cmd_len] = NUL]
            /\ at_cmd_ready' = TRUE
            /\ UNCHANGED <<at_cmd_len, at_mode_active>>
         [] c \in {BS, DEL} ->
            /\ at_cmd_len' = IF at_cmd_len > 0 THEN at_cmd_len - 1 ELSE at_cmd_len
            /\ UNCHANGED <<at_cmd, at_cmd_ready, at_mode_active>>
         [] OTHER ->
            IF at_cmd_len <= AT_CMD_MAXLEN
            THEN IF isprint(c)
                 THEN /\ at_cmd' = [at_cmd EXCEPT ![at_cmd_len] = toupper(c)]
                      /\ at_cmd_len' = at_cmd_len + 1
                      /\ UNCHANGED <<at_cmd_ready, at_mode_active>>
                 ELSE UNCHANGED <<at_cmd, at_cmd_len, at_cmd_ready, at_mode_active>>
            ELSE /\ at_mode_active' = FALSE
                 /\ at_cmd_len' = 0
                 /\ UNCHANGED <<at_cmd, at_cmd_ready>>

at_input(c) ==
    /\ out' = at_input_echo(c)
    /\ CASE c = CR ->
            /\ at_cmd' = [at_cmd EXCEPT ![at_cmd_len] = NUL]
            /\ at_cmd_ready' = TRUE
            /\ UNCHANGED <<at_cmd_len, at_mode_active>>
         [] c \in {BS, DEL} ->
            /\ at_cmd_len' = IF at_cmd_len > 0 THEN at_cmd_len - 1 ELSE at_cmd_len
            /\ UNCHANGED <<at_cmd, at_cmd_ready, at_mode_active>>
         [] OTHER ->
            IF at_cmd_len < AT_CMD_MAXLEN
            THEN IF isprint(c)
                 THEN /\ at_cmd' = [at_cmd EXCEPT ![at_cmd_len] = toupper(c)]
                      /\ at_cmd_len' = at_cmd_len + 1
                      /\ UNCHANGED <<at_cmd_ready, at_mode_active>>
                 ELSE UNCHANGED <<at_cmd, at_cmd_len, at_cmd_ready, at_mode_active>>
            ELSE /\ at_mode_active' = FALSE
                 /\ at_cmd_len' = 0
                 /\ UNCHANGED <<at_cmd, at_cmd_ready>>

\* ---------------------------------------------------- at_plus_detector

\* the state the switch of at_plus_detector sees
DetectorSwitchState(c) == IF c # "+" THEN ATP_WAIT_FOR_IDLE ELSE at_plus_state

\* at_plus_detector with the idle case sharing the branch that counts a '+'
at_plus_detector_idle_counts(c) ==
    LET s == DetectorSwitchState(c)
    IN  CASE s \in {ATP_WAIT_FOR_PLUS1, ATP_WAIT_FOR_PLUS2}
               \/ (s = ATP_WAIT_FOR_IDLE /\ c = "+") ->
                /\ at_plus_state' = s + 1
                /\ UNCHANGED at_plus_counter
          [] s = ATP_WAIT_FOR_PLUS3 ->
                /\ at_plus_state' = ATP_WAIT_FOR_ENABLE
                /\ at_plus_counter' = ATP_COUNT_1S
          [] s \in {ATP_WAIT_FOR_IDLE, ATP_WAIT_FOR_ENABLE} ->
                /\ at_plus_state' = s
                /\ at_plus_counter' = ATP_COUNT_1S
          [] OTHER ->
                /\ at_plus_state' = ATP_WAIT_FOR_IDLE
                /\ at_plus_counter' = ATP_COUNT_1S

\* at_plus_detector whose '+' in wait-for-enable does not restart the counter
at_plus_detector_no_restart(c) ==
    LET s == DetectorSwitchState(c)
    IN  CASE s \in {ATP_WAIT_FOR_PLUS1, ATP_WAIT_FOR_PLUS2} ->
                /\ at_plus_state' = s + 1
                /\ UNCHANGED at_plus_counter
          [] s = ATP_WAIT_FOR_PLUS3 ->
                /\ at_plus_state' = ATP_WAIT_FOR_ENABLE
                /\ at_plus_counter' = ATP_COUNT_1S
          [] s = ATP_WAIT_FOR_IDLE ->
                /\ at_plus_state' = s
                /\ at_plus_counter' = ATP_COUNT_1S
          [] s = ATP_WAIT_FOR_ENABLE ->
                /\ at_plus_state' = s
                /\ UNCHANGED at_plus_counter
          [] OTHER ->
                /\ at_plus_state' = ATP_WAIT_FOR_IDLE
                /\ at_plus_counter' = ATP_COUNT_1S

\* at_plus_detector that returns to idle on a '+' in wait-for-enable
at_plus_detector_enable_resets(c) ==
    LET s == DetectorSwitchState(c)
    IN  CASE s \in {ATP_WAIT_FOR_PLUS1, ATP_WAIT_FOR_PLUS2} ->
                /\ at_plus_state' = s + 1
                /\ UNCHANGED at_plus_counter
          [] s = ATP_WAIT_FOR_PLUS3 ->
                /\ at_plus_state' = ATP_WAIT_FOR_ENABLE
                /\ at_plus_counter' = ATP_COUNT_1S
          [] OTHER ->
                /\ at_plus_state' = ATP_WAIT_FOR_IDLE
                /\ at_plus_counter' = ATP_COUNT_1S

at_plus_detector(c) ==
    LET s == DetectorSwitchState(c)
    IN  CASE s \in {ATP_WAIT_FOR_PLUS1, ATP_WAIT_FOR_PLUS2} ->
                /\ at_plus_state' = s + 1
                /\ UNCHANGED at_plus_counter
          [] s = ATP_WAIT_FOR_PLUS3 ->
                /\ at_plus_state' = ATP_WAIT_FOR_ENABLE
                /\ at_plus_counter' = ATP_COUNT_1S
          [] s \in {ATP_WAIT_FOR_IDLE, ATP_WAIT_FOR_ENABLE} ->
                /\ at_plus_state' = s
                /\ at_plus_counter' = ATP_COUNT_1S
          [] OTHER ->
                /\ at_plus_state' = ATP_WAIT_FOR_IDLE
                /\ at_plus_counter' = ATP_COUNT_1S

\* ------------------------------------------------------------- at_timer

\* the buffer after the timer has stuffed the empty AT command into it
StuffAT(buf) == [buf EXCEPT ![0] = "A", ![1] = "T", ![2] = NUL]

\* what the timer reads and writes
TimerView ==
    [counter |-> at_plus_counter, state |-> at_plus_state, cmd |-> at_cmd,
     len |-> at_cmd_len, ready |-> at_cmd_ready, mode |-> at_mode_active]

\* at_timer that sets command mode but forgets to mark the stuffed line ready
at_timer_no_ready(t) ==
    IF t.counter > 0
    THEN IF t.counter - 1 = 0
         THEN CASE t.state = ATP_WAIT_FOR_IDLE ->
                     [t EXCEPT !.counter = 0, !.state = ATP_WAIT_FOR_PLUS1]
                [] t.state = ATP_WAIT_FOR_ENABLE ->
                     [t EXCEPT !.counter = 0,
                               !.mode = TRUE,
                               !.state = ATP_WAIT_FOR_IDLE,
                               !.cmd = StuffAT(t.cmd),
                               !.len = 2]
                [] OTHER -> [t EXCEPT !.counter = 0]
         ELSE [t EXCEPT !.counter = t.counter - 1]
    ELSE t

\* at_timer whose expiry in a seen-plus state restarts detection from idle
at_timer_plus_timeout(t) ==
    IF t.counter > 0
    THEN IF t.counter - 1 = 0
         THEN CASE t.state = ATP_WAIT_FOR_IDLE ->
                     [t EXCEPT !.counter = 0, !.state = ATP_WAIT_FOR_PLUS1]
                [] t.state = ATP_WAIT_FOR_ENABLE ->
                     [t EXCEPT !.counter = 0,
                               !.mode = TRUE,
                               !.state = ATP_WAIT_FOR_IDLE,
                               !.cmd = StuffAT(t.cmd),
                               !.len = 2,
                               !.ready = TRUE]
                [] OTHER -> [t EXCEPT !.counter = 0, !.state = ATP_WAIT_FOR_IDLE]
         ELSE [t EXCEPT !.counter = t.counter - 1]
    ELSE t

\* at_timer that restarts the counter when it enters command mode
at_timer_rearms(t) ==
    IF t.counter > 0
    THEN IF t.counter - 1 = 0
         THEN CASE t.state = ATP_WAIT_FOR_IDLE ->
                     [t EXCEPT !.counter = 0, !.state = ATP_WAIT_FOR_PLUS1]
                [] t.state = ATP_WAIT_FOR_ENABLE ->
                     [t EXCEPT !.counter = ATP_COUNT_1S,
                               !.mode = TRUE,
                               !.state = ATP_WAIT_FOR_IDLE,
                               !.cmd = StuffAT(t.cmd),
                               !.len = 2,
                               !.ready = TRUE]
                [] OTHER -> [t EXCEPT !.counter = 0]
         ELSE [t EXCEPT !.counter = t.counter - 1]
    ELSE t

\* one call of at_timer on the view t
at_timer(t) ==
    IF t.counter > 0
    THEN IF t.counter - 1 = 0
         THEN CASE t.state = ATP_WAIT_FOR_IDLE ->
                     [t EXCEPT !.counter = 0, !.state = ATP_WAIT_FOR_PLUS1]
                [] t.state = ATP_WAIT_FOR_ENABLE ->
                     [t EXCEPT !.counter = 0,
                               !.mode = TRUE,
                               !.state = ATP_WAIT_FOR_IDLE,
                               !.cmd = StuffAT(t.cmd),
                               !.len = 2,
                               !.ready = TRUE]
                [] OTHER -> [t EXCEPT !.counter = 0]
         ELSE [t EXCEPT !.counter = t.counter - 1]
    ELSE t

\* n calls of at_timer in a row
RECURSIVE TimerRun(_, _)
TimerRun(t, n) ==
    IF n = 0 \/ t.counter = 0 THEN t
    ELSE IF t.counter > n
    THEN [t EXCEPT !.counter = t.counter - n]      \* n calls that only count down
    ELSE IF t.counter > 1
    THEN TimerRun([t EXCEPT !.counter = 1], n - (t.counter - 1))
    ELSE TimerRun(at_timer(t), n - 1)

\* ------------------------------------------------------ at_parse_number

\* the loop of at_parse_number from cursor i with the value reg so far:
\* the value returned and the cursor left behind
RECURSIVE ParseLoop(_, _, _)
ParseLoop(buf, i, reg) ==
    IF i > AT_CMD_MAXLEN \/ ~isdigit(buf[i])
    THEN [val |-> reg, idx |-> i]
    ELSE ParseLoop(buf, i + 1, U32MulAdd(reg, DigitVal(buf[i])))

at_parse_number(buf, i) == ParseLoop(buf, i, U32Zero)

\* ------------------------------------------------- the command handlers

\* The results of the collaborator calls a dispatch may make: whether
\* param_set accepts, pins_user_get_io says input, pins_user_set_value
\* succeeds, the calibration store succeeds, and whether nodeId is 0.
Env == [set_ok : BOOLEAN, pin_in : BOOLEAN, pin_ok : BOOLEAN,
        cal_ok : BOOLEAN, is_base : BOOLEAN]

\* printf("[%u] OK\n", nodeId)
at_ok == <<"OK">>

\* printf("[%u] ERROR\n", nodeId)
at_error == <<"ERROR">>

\* what a handler hands back: its output, its collaborator calls, and the
\* globals it may change
Ret(o, c) ==
    [out |-> o, calls |-> c, idx |-> idx, param |-> param,
     testmode |-> at_testmode, halted |-> FALSE]

at_i(e) ==
    LET c == at_cmd[3]
    IN  CASE c \in {NUL, "0"} -> Ret(<<<<"print", "g_banner_string">>>>, <<>>)
          [] c = "1" -> Ret(<<<<"print", "g_version_string">>>>, <<>>)
          [] c = "2" -> Ret(<<<<"print", "BOARD_ID">>>>, <<>>)
          [] c = "3" -> Ret(<<<<"print", "g_board_frequency">>>>, <<>>)
          [] c = "4" -> Ret(<<<<"print", "g_board_bl_version">>>>, <<>>)
          [] c = "5" ->
                Ret(<<>>, [id \in 1 .. PARAM_MAX |-> <<"param_print", ToString(id - 1)>>])
          [] c = "6" -> Ret(<<>>, <<<<"tdm_report_timing">>>>)
          [] c = "7" -> Ret(<<>>, <<<<"tdm_show_rssi">>>>)
          [] c = "8" ->
                IF e.is_base
                THEN Ret(<<<<"print", "Sync: Base">>>>, <<>>)
                ELSE Ret(<<<<"print", "Sync", "tdm_state_sync">>>>, <<<<"tdm_state_sync">>>>)
          [] OTHER -> Ret(<<at_error>>, <<>>)

\* at_s that lets register 0 be written
at_s_writes_reg0(e) ==
    LET n == at_parse_number(at_cmd, 3)
        sreg == U8(n.val)
        v == at_parse_number(at_cmd, n.idx + 1)
    IN  IF sreg >= PARAM_MAX
        THEN [Ret(<<at_error>>, <<>>) EXCEPT !.idx = n.idx]
        ELSE CASE at_cmd[n.idx] = "?" ->
                    [Ret(<<<<"print">> \o U32Str(param[sreg])>>,
                         <<<<"param_get", ToString(sreg)>>>>) EXCEPT !.idx = n.idx]
               [] at_cmd[n.idx] = "=" ->
                    IF e.set_ok
                    THEN [Ret(<<at_ok>>,
                              <<<<"param_set", ToString(sreg)>> \o U32Str(v.val)
                                  \o <<"true">>>>)
                            EXCEPT !.idx = v.idx,
                                   !.param = [param EXCEPT ![sreg] = v.val]]
                    ELSE [Ret(<<at_error>>,
                              <<<<"param_set", ToString(sreg)>> \o U32Str(v.val)
                                  \o <<"false">>>>)
                            EXCEPT !.idx = v.idx]
               [] OTHER -> [Ret(<<at_error>>, <<>>) EXCEPT !.idx = n.idx]

at_s(e) ==
    LET n == at_parse_number(at_cmd, 3)
        sreg == U8(n.val)
        v == at_parse_number(at_cmd, n.idx + 1)
    IN  IF sreg >= PARAM_MAX
        THEN [Ret(<<at_error>>, <<>>) EXCEPT !.idx = n.idx]
        ELSE CASE at_cmd[n.idx] = "?" ->
                    [Ret(<<<<"print">> \o U32Str(param[sreg])>>,
                         <<<<"param_get", ToString(sreg)>>>>) EXCEPT !.idx = n.idx]
               [] at_cmd[n.idx] = "=" /\ sreg > 0 ->
                    IF e.set_ok
                    THEN [Ret(<<at_ok>>,
                              <<<<"param_set", ToString(sreg)>> \o U32Str(v.val)
                                  \o <<"true">>>>)
                            EXCEPT !.idx = v.idx,
                                   !.param = [param EXCEPT ![sreg] = v.val]]
                    ELSE [Ret(<<at_error>>,
                              <<<<"param_set", ToString(sreg)>> \o U32Str(v.val)
                                  \o <<"false">>>>)
                            EXCEPT !.idx = v.idx]
               [] OTHER -> [Ret(<<at_error>>, <<>>) EXCEPT !.idx = n.idx]

\* the factory defaults param_default() restores
ParamDefault == [n \in 0 .. PARAM_MAX - 1 |-> U32Zero]

\* x | bit in place of x ^ bit
XorBit_sets(x, bit) == IF (x \div bit) % 2 = 1 THEN x ELSE x + bit

\* x ^ bit for a one-bit mask
XorBit(x, bit) == IF (x \div bit) % 2 = 1 THEN x - bit ELSE x + bit

at_ampersand(e) ==
    LET c == at_cmd[3]
    IN  CASE c = "F" ->
                [Ret(<<at_ok>>, <<<<"param_default">>>>) EXCEPT !.param = ParamDefault]
          [] c = "W" -> Ret(<<at_ok>>, <<<<"param_save">>>>)
          [] c = "U" ->
                IF StrEq(at_cmd, 4, <<"P", "D", "A", "T", "E">>)
                THEN [Ret(<<>>, <<>>) EXCEPT !.halted = TRUE]
                ELSE Ret(<<at_error>>, <<>>)
          [] c = "T" ->
                IF StrEq(at_cmd, 4, <<>>)
                THEN [Ret(<<>>, <<>>) EXCEPT !.testmode = 0]
                ELSE IF StrEq(at_cmd, 4, <<"=", "R", "S", "S", "I">>)
                THEN [Ret(<<>>, <<>>) EXCEPT !.testmode = XorBit(at_testmode, AT_TEST_RSSI)]
                ELSE IF StrEq(at_cmd, 4, <<"=", "T", "D", "M">>)
                THEN [Ret(<<>>, <<>>) EXCEPT !.testmode = XorBit(at_testmode, AT_TEST_TDM)]
                ELSE Ret(<<at_error>>, <<>>)
          [] OTHER -> Ret(<<at_error>>, <<>>)

\* the ATPP dump: three printf per pin
RECURSIVE PinDump(_, _)
PinDump(pinId, e) ==
    IF pinId >= PIN_MAX THEN <<>>
    ELSE <<<<"print", "Pin", ToString(pinId)>>,
           <<"print", IF e.pin_in THEN "Input" ELSE "Output">>,
           <<"print", "Val", "pins_user_get_value">>>> \o PinDump(pinId + 1, e)

at_p(e) ==
    IF at_cmd[3] = "P"
    THEN Ret(PinDump(0, e),
             [i \in 1 .. 2 * PIN_MAX |->
                 <<IF i % 2 = 1 THEN "pins_user_get_io" ELSE "pins_user_get_value",
                   ToString((i - 1) \div 2)>>])
    ELSE IF at_cmd[4] # "=" \/ ~isdigit(at_cmd[5])
    THEN Ret(<<at_error>>, <<>>)
    ELSE LET pinId == ToString(DigitVal(at_cmd[5]))
             c == at_cmd[3]
         IN  CASE c = "O" ->
                    Ret(<<at_ok>>, <<<<"pins_user_set_io", pinId, "PIN_OUTPUT">>>>)
               [] c = "I" ->
                    Ret(<<at_ok>>, <<<<"pins_user_set_io", pinId, "PIN_INPUT">>>>)
               [] c = "R" ->
                    IF e.pin_in
                    THEN Ret(<<<<"print", "val", "pins_user_get_adc">>>>,
                             <<<<"pins_user_get_io", pinId>>,
                               <<"pins_user_get_adc", pinId>>>>)
                    ELSE Ret(<<at_error>>, <<<<"pins_user_get_io", pinId>>>>)
               [] c = "C" ->
                    IF ~isdigit(at_cmd[7])
                    THEN Ret(<<at_error>>, <<>>)
                    ELSE Ret(<<IF e.pin_ok THEN at_ok ELSE at_error>>,
                             <<<<"pins_user_set_value", pinId,
                                 ToString(DigitVal(at_cmd[7]))>>>>)
               [] OTHER -> Ret(<<at_error>>, <<>>)

at_plus(e) ==
    IF ~BOARD_rfd900a
    THEN Ret(<<at_error>>, <<>>)
    ELSE LET n == at_parse_number(at_cmd, 4)
             creg == ToString(U8(n.val))
             c == at_cmd[3]
         IN  CASE c = "P" ->
                    IF at_cmd[4] # "="
                    THEN [Ret(<<at_error>>, <<>>) EXCEPT !.idx = n.idx]
                    ELSE LET v == at_parse_number(at_cmd, 5)
                         IN  [Ret(<<at_ok>>,
                                  <<<<"PCA0CPH0", ToString(U8(v.val))>>,
                                    <<"radio_set_diversity", "false">>>>)
                                EXCEPT !.idx = v.idx]
               [] c = "C" ->
                    CASE at_cmd[n.idx] = "?" ->
                            [Ret(<<<<"print", "calibration_get">>>>,
                                 <<<<"calibration_get", creg>>>>) EXCEPT !.idx = n.idx]
                      [] at_cmd[n.idx] = "=" ->
                            LET v == at_parse_number(at_cmd, n.idx + 1)
                            IN  [Ret(<<IF e.cal_ok THEN at_ok ELSE at_error>>,
                                     <<<<"calibration_set", creg, ToString(U8(v.val))>>>>)
                                   EXCEPT !.idx = v.idx]
                      [] OTHER -> [Ret(<<at_error>>, <<>>) EXCEPT !.idx = n.idx]
               [] c = "L" ->
                    [Ret(<<IF e.cal_ok THEN at_ok ELSE at_error>>,
                         <<<<"calibration_lock">>>>) EXCEPT !.idx = n.idx]
               [] OTHER -> [Ret(<<at_error>>, <<>>) EXCEPT !.idx = n.idx]

\* ----------------------------------------------------------- at_command

\* the scan of the RT path for a ',' from cursor i
RECURSIVE RtScan(_)
RtScan(i) ==
    IF at_cmd_len <= i \/ at_cmd[i] = "," THEN i ELSE RtScan(i + 1)

IsRT == at_cmd_len >= 2 /\ at_cmd[0] = "R" /\ at_cmd[1] = "T"

IsAT == at_cmd_len >= 2 /\ at_cmd[0] = "A" /\ at_cmd[1] = "T"

\* 0xFFFF, the broadcast destination
Broadcast == "65535"

\* the remote AT path: the buffer, the cursor and the call it leaves
RemoteAT ==
    LET i == RtScan(3)
        cut == [at_cmd EXCEPT ![i] = NUL]
        n == at_parse_number(cut, i + 1)
    IN  IF at_cmd[i] = ","
        THEN [cmd |-> cut, idx |-> n.idx,
              calls |-> <<<<"tdm_remote_at", ToString(U16(n.val))>>>>]
        ELSE [cmd |-> at_cmd, idx |-> i,
              calls |-> <<<<"tdm_remote_at", Broadcast>>>>]

\* the switch on at_cmd[2] of a local AT command
LocalAT(e) ==
    LET c == at_cmd[2]
    IN  CASE c = NUL -> Ret(<<at_ok>>, <<>>)
          [] c = "&" -> at_ampersand(e)
          [] c = "+" -> at_plus(e)
          [] c = "I" -> at_i(e)
          [] c = "P" -> at_p(e)
          [] c = "O" -> Ret(<<>>, <<>>)
          [] c = "S" -> at_s(e)
          [] c = "Z" -> [Ret(<<>>, <<>>) EXCEPT !.halted = TRUE]
          [] OTHER -> Ret(<<at_error>>, <<>>)

\* a dispatcher that has no case 'O'
IsATO_never == FALSE

\* the line is ATO: go online
IsATO == IsAT /\ at_cmd[2] = "O"

\* an unlock that empties the buffer but leaves the ready flag set
Unlock_keeps_ready ==
    /\ at_cmd_len' = 0
    /\ UNCHANGED at_cmd_ready

\* unlock the command buffer
Unlock ==
    /\ at_cmd_len' = 0
    /\ at_cmd_ready' = FALSE

at_command ==
    IF ~at_cmd_ready
    THEN /\ UNCHANGED prog
         /\ out' = <<>>
         /\ calls' = <<>>
    ELSE IF IsRT
    THEN /\ at_cmd' = RemoteAT.cmd
         /\ idx' = RemoteAT.idx
         /\ calls' = RemoteAT.calls
         /\ out' = <<>>
         /\ at_cmd_len' = 0
         /\ at_cmd_ready' = FALSE
         /\ UNCHANGED <<at_mode_active, at_testmode, at_plus_state, at_plus_counter,
                        param, halted>>
    ELSE IF IsAT
    THEN \E e \in Env :
            LET r == LocalAT(e)
            IN  /\ out' = r.out
                /\ calls' = r.calls
                /\ idx' = r.idx
                /\ param' = r.param
                /\ at_testmode' = r.testmode
                /\ halted' = r.halted
                /\ at_plus_counter' = IF IsATO THEN ATP_COUNT_1S ELSE at_plus_counter
                /\ at_mode_active' = IF IsATO THEN FALSE ELSE at_mode_active
                /\ IF r.halted THEN UNCHANGED <<at_cmd_len, at_cmd_ready>> ELSE Unlock
                /\ UNCHANGED <<at_cmd, at_plus_state>>
    ELSE /\ Unlock
         /\ out' = <<>>
         /\ calls' = <<>>
         /\ UNCHANGED <<at_cmd, idx, at_mode_active, at_testmode, at_plus_state,
                        at_plus_counter, param, halted>>

\* ------------------------------------------------------ the environment

\* a silence shorter than the guard time, in ticks
GapShort == 40

\* The silences the model lets pass at once: a short one, one tick less
\* than the guard time, and the guard time.
Gaps == {GapShort, ATP_COUNT_1S - 1, ATP_COUNT_1S}

Min(a, b) == IF a < b THEN a ELSE b

\* the buffer holds the line ATO, terminated
HoldsATO(buf, len) ==
    len = 3 /\ buf[0] = "A" /\ buf[1] = "T" /\ buf[2] = "O" /\ buf[3] = NUL

\* the observers of the byte stream and the clock
TickCap == ATP_COUNT_1S + 1

PlusCap == 4

\* no escape sequence after ATO is under way
NoATO == [ph |-> "none", t |-> 0]

\* ATO has just been dispatched: the leading silence starts
AfterATO == [ph |-> "lead", t |-> 0]

\* The escape sequence after ATO: a leading silence of ATP_COUNT_1S ticks,
\* three '+', a trailing silence.  Any other byte, a '+' too early and a
\* fourth '+' end it.
ATOByte(c) ==
    CASE q_ato.ph = "none" -> q_ato
      [] c # "+" -> NoATO
      [] q_ato.ph = "lead" ->
            IF q_ato.t >= ATP_COUNT_1S THEN [ph |-> "plus1", t |-> 0] ELSE NoATO
      [] q_ato.ph = "plus1" -> [ph |-> "plus2", t |-> 0]
      [] q_ato.ph = "plus2" -> [ph |-> "trail", t |-> 0]
      [] OTHER -> NoATO

ATOTick(n) ==
    IF q_ato.ph \in {"lead", "trail"}
    THEN [q_ato EXCEPT !.t = Min(q_ato.t + n, ATP_COUNT_1S)]
    ELSE q_ato

ObserveByte(c) ==
    /\ q_ato' = ATOByte(c)
    /\ q_ticks' = 0
    /\ q_plus' = IF c = "+" THEN Min(q_plus + 1, PlusCap) ELSE 0
    /\ q_src' = IF c = "+" THEN q_src ELSE ~at_mode_active
    /\ q_lead' = IF c # "+" THEN FALSE
                 ELSE IF q_plus = 0 THEN q_src /\ q_ticks >= ATP_COUNT_1S
                 ELSE q_lead
    /\ q_quiet' = IF c # "+" THEN FALSE ELSE q_quiet \/ q_ticks >= ATP_COUNT_1S
    /\ q_wide' = IF c # "+" \/ q_plus = 0 THEN TRUE
                 ELSE q_wide /\ q_ticks > ATP_COUNT_1S
    /\ q_run' = IF ~(at_mode_active /\ ~at_cmd_ready) THEN q_run
                ELSE IF ~isprint(c) \/ at_cmd_len >= AT_CMD_MAXLEN THEN 0
                ELSE Min(q_run + 1, AT_CMD_MAXLEN + 1)

ObserveTick(n) ==
    /\ q_ato' = ATOTick(n)
    /\ q_ticks' = Min(q_ticks + n, TickCap)
    /\ UNCHANGED <<q_plus, q_src, q_lead, q_quiet, q_wide, q_run>>

\* The serial receive path: every received byte goes past the escape
\* detector, and to the line editor while command mode is active and no
\* submitted line waits for the dispatcher.
serial_receive(c) ==
    /\ at_plus_detector(c)
    /\ IF at_mode_active /\ ~at_cmd_ready
       THEN at_input(c)
       ELSE /\ UNCHANGED <<at_cmd, at_cmd_len, at_cmd_ready, at_mode_active>>
            /\ out' = <<>>
    /\ calls' = <<>>
    /\ UNCHANGED <<idx, at_testmode, param, halted>>

\* the lines a command session lasts
MaxLines == 2

\* The host sends one byte: the next byte of the command line it is
\* typing, or a single byte of its data stream, or the first byte of a new
\* command line.  It types a command line in command mode, into an empty
\* buffer with no line pending.  A command session ends after MaxLines
\* lines; the observers of the session watch nothing else.
HostSends(bytes, lines, session) ==
    /\ ~halted
    /\ session /\ host = <<>> => typed < MaxLines
    /\ typed' = IF session /\ host = <<>> THEN typed + 1 ELSE typed
    /\ \E l \in (IF host # <<>> THEN {host}
                 ELSE {<<b>> : b \in bytes} \cup
                      (IF at_mode_active /\ at_cmd_len = 0 /\ ~at_cmd_ready
                       THEN lines ELSE {})) :
          /\ serial_receive(Head(l))
          /\ ObserveByte(Head(l))
          /\ host' = Tail(l)
          /\ q_line' = IF session /\ host = <<>> /\ l \in lines THEN l ELSE q_line

\* The 100 Hz timer interrupt runs n times with no byte and no main-loop
\* pass in between.
Tick ==
    /\ ~halted
    /\ host = <<>>
    /\ \E n \in Gaps :
          LET t == TimerRun(TimerView, n)
          IN  /\ at_plus_counter' = t.counter
              /\ at_plus_state' = t.state
              /\ at_cmd' = t.cmd
              /\ at_cmd_len' = t.len
              /\ at_cmd_ready' = t.ready
              /\ at_mode_active' = t.mode
              /\ ObserveTick(n)
    /\ out' = <<>>
    /\ calls' = <<>>
    /\ UNCHANGED <<idx, at_testmode, param, halted, host, q_line, typed>>

\* one pass of the main loop
MainLoop ==
    /\ ~halted
    /\ at_command
    /\ q_ato' = IF at_cmd_ready /\ HoldsATO(at_cmd, at_cmd_len) THEN AfterATO ELSE q_ato
    /\ UNCHANGED <<host, obs, q_run, q_line, typed>>

\* n times the character c
RECURSIVE Fill(_, _)
Fill(c, n) == IF n = 0 THEN <<>> ELSE <<c>> \o Fill(c, n - 1)

\* what the host may send while the escape sequence is exercised
Bytes == {"+", BEL}

Lines ==
    { <<"a", "t", CR>>,
      <<"A", "T", "O", CR>> }

Receive == HostSends(Bytes, Lines, FALSE)

Init ==
    /\ at_cmd = [i \in BufIdx |-> NUL]
    /\ at_cmd_len = 0
    /\ idx = 0
    /\ at_mode_active = FALSE
    /\ at_cmd_ready = FALSE
    /\ at_testmode = 0
    /\ at_plus_state = ATP_WAIT_FOR_IDLE
    /\ at_plus_counter = ATP_COUNT_1S
    /\ param = ParamDefault
    /\ halted = FALSE
    /\ out = <<>>
    /\ calls = <<>>
    /\ host = <<>>
    /\ q_ticks = 0
    /\ q_plus = 0
    /\ q_src = TRUE
    /\ q_lead = FALSE
    /\ q_quiet = FALSE
    /\ q_wide = TRUE
    /\ q_run = 0
    /\ q_line = <<>>
    /\ q_ato = NoATO
    /\ typed = 0

Next == Receive \/ Tick \/ MainLoop

Spec == Init /\ [][Next]_vars

\* ------------------------------------------- a command session

\* the command lines the host types in a command session
CmdLines ==
    { <<CR>>,
      Fill("x", AT_CMD_MAXLEN + 1),
      <<"a", "t", CR>>,
      <<"A", "T", "X", CR>>,
      <<"a", "t", "?", CR>>,
      <<"A", "T", "X", BS, "I", CR>>,
      <<"X", "Y", CR>>,
      <<"A", "T", "O", CR>>,
      <<"A", "T", "Z", CR>>,
      <<"A", "T", "I", "5", CR>>,
      <<"A", "T", "I", "8", CR>>,
      <<"A", "T", "S", "0", "?", CR>>,
      <<"A", "T", "S", "1", "?", CR>>,
      <<"A", "T", "S", "0", "=", "5", CR>>,
      <<"A", "T", "S", "1", "=", "5", CR>>,
      <<"A", "T", "S", "2", "=", "7", CR>>,
      <<"A", "T", "S", "9", "?", CR>>,
      <<"A", "T", "S", "9", "=", "1", CR>>,
      <<"A", "T", "S", "2", "5", "6", "?", CR>>,
      <<"A", "T", "S", "2", "5", "7", "=", "5", CR>>,
      <<"A", "T", "S", ",", "7", CR>>,
      <<"A", "T", "&", "F", CR>>,
      <<"A", "T", "&", "T", CR>>,
      <<"A", "T", "&", "T", "=", "R", "S", "S", "I", CR>>,
      <<"A", "T", "&", "T", "=", "T", "D", "M", CR>>,
      <<"a", "t", "&", "t", "=", "x", CR>>,
      <<"A", "T", "&", "U", "P", "D", "A", "T", "E", CR>>,
      <<"A", "T", "P", "P", CR>>,
      <<"A", "T", "P", "C", "=", "1", CR>>,
      <<"A", "T", "P", "C", "=", "1", ",", "1", CR>>,
      <<"A", "T", "P", "C", "=", "1", ",", "x", CR>>,
      <<"A", "T", "P", "R", "=", "0", CR>>,
      <<"A", "T", "+", "C", "1", "=", "2", CR>>,
      <<"R", "T", CR>>,
      <<"R", "T", "I", CR>>,
      <<"R", "T", "I", ",", "2", CR>>,
      <<"R", "T", "S", "1", "=", "5", ",", "1", "2", CR>> }

\* the single bytes the host sends outside a command line
CmdBytes == {BS}

ReceiveCmd == HostSends(CmdBytes, CmdLines, TRUE)

\* The state right after the escape sequence has been answered: command
\* mode active, the synthesized AT line dispatched.
InitCmd ==
    /\ at_cmd = StuffAT([i \in BufIdx |-> NUL])
    /\ at_cmd_len = 0
    /\ idx = 0
    /\ at_mode_active = TRUE
    /\ at_cmd_ready = FALSE
    /\ at_testmode = 0
    /\ at_plus_state = ATP_WAIT_FOR_IDLE
    /\ at_plus_counter = 0
    /\ param = ParamDefault
    /\ halted = FALSE
    /\ out = <<at_ok>>
    /\ calls = <<>>
    /\ host = <<>>
    /\ q_ticks = TickCap
    /\ q_plus = 3
    /\ q_src = TRUE
    /\ q_lead = TRUE
    /\ q_quiet = TRUE
    /\ q_wide = TRUE
    /\ q_run = 0
    /\ q_line = <<>>
    /\ q_ato = NoATO
    /\ typed = 0

NextCmd == ReceiveCmd \/ MainLoop

SpecCmd == InitCmd /\ [][NextCmd]_vars

\* the state SpecCmd starts from is one the escape sequence leads to
InitCmdReached == InitCmd

\* ----------------------------------------------------------- properties

TypeOK ==
    /\ at_cmd \in [BufIdx -> Char]
    /\ at_cmd_len \in Nat
    /\ at_plus_state \in 0 .. 4
    /\ at_plus_counter \in 0 .. ATP_COUNT_1S

\* the buffer holds the line AT, terminated
HoldsAT(buf, len) == len = 2 /\ buf[0] = "A" /\ buf[1] = "T" /\ buf[2] = NUL

SeenPlus == {ATP_WAIT_FOR_PLUS1, ATP_WAIT_FOR_PLUS2, ATP_WAIT_FOR_PLUS3}

\* C1: with command mode off, a byte other than '+', a silent second, three
\* '+' and another silent second switch command mode on and leave the ready
\* line AT in the buffer; the dispatcher answers that line with one OK.
C1_EscapeEntry ==
    /\ [][(q_lead /\ q_plus = 3 /\ q_ticks < ATP_COUNT_1S /\ q_ticks' >= ATP_COUNT_1S)
            => (~at_mode_active /\ at_mode_active' /\ at_cmd_ready'
                /\ HoldsAT(at_cmd', at_cmd_len'))]_vars
    /\ [][(MainLoop /\ at_cmd_ready /\ HoldsAT(at_cmd, at_cmd_len))
            => (out' = <<at_ok>> /\ calls' = <<>>)]_vars

C1_Witness ==
    /\ q_lead /\ q_plus = 3 /\ q_ticks >= ATP_COUNT_1S
    /\ at_mode_active /\ ~at_cmd_ready /\ at_cmd_len = 0
    /\ out = <<at_ok>>

\* C2: three '+' that follow a byte other than '+' with no silent second in
\* between leave the detector in idle, and the silence after them does not
\* arm the enable state or switch command mode on.
C2_LeadingGuard ==
    /\ []((q_plus = 3 /\ ~q_quiet /\ q_ticks < ATP_COUNT_1S)
            => at_plus_state = ATP_WAIT_FOR_IDLE)
    /\ []((q_plus = 3 /\ ~q_quiet)
            => at_plus_state \in {ATP_WAIT_FOR_IDLE, ATP_WAIT_FOR_PLUS1})
    /\ [][(q_plus = 3 /\ ~q_quiet /\ q_ticks' > q_ticks)
            => (at_plus_state' # ATP_WAIT_FOR_ENABLE
                /\ at_mode_active' = at_mode_active
                /\ at_cmd_ready' = at_cmd_ready)]_vars

C2_Witness ==
    /\ q_plus = 3 /\ ~q_quiet /\ q_src /\ q_ticks >= ATP_COUNT_1S
    /\ at_plus_state = ATP_WAIT_FOR_PLUS1
    /\ ~at_mode_active

C4_OverflowStep ==
    [][\A c \in Char \ {CR, BS, DEL} :
          (at_mode_active /\ ~at_cmd_ready /\ at_cmd_len = AT_CMD_MAXLEN
           /\ serial_receive(c))
            => (~at_mode_active' /\ at_cmd_len' = 0 /\ out' = <<>> /\ calls' = <<>>
                /\ at_cmd' = at_cmd)]_vars

\* C4 as claimed: AT_CMD_MAXLEN + 1 printable bytes in a row never get to
\* at_input without command mode ending.
C4_Original == q_run <= AT_CMD_MAXLEN

\* a byte of each kind at_input tells apart
InputKinds == {CR, BS, DEL, NUL, BEL, "+", "a", "A", "0"}

\* C5: the length of the command never exceeds AT_CMD_MAXLEN, so that
\* at_cmd[at_cmd_len] is an element of the buffer; and no byte handed to
\* at_input in any reachable state, whatever the mode and the ready flag,
\* takes the length out of that range.
C5_LenBound ==
    /\ at_cmd_len \in BufIdx
    /\ \A c \in InputKinds : ~ENABLED (at_input(c) /\ at_cmd_len' \notin BufIdx)

C5_Witness == at_cmd_len = AT_CMD_MAXLEN /\ at_mode_active /\ ~at_cmd_ready

\* the host has typed the whole of line l and the dispatcher has not yet run
Pending(l) == host = <<>> /\ q_line = l /\ at_cmd_ready

\* the host has typed the whole of line l and the dispatcher has consumed it
Consumed(l) == host = <<>> /\ q_line = l /\ ~at_cmd_ready /\ at_cmd_len = 0

\* the dispatcher never returns from ATZ and AT&UPDATE
NeverReturns ==
    /\ IsAT
    /\ \/ at_cmd[2] = "Z"
       \/ at_cmd[2] = "&" /\ at_cmd[3] = "U"
          /\ StrEq(at_cmd, 4, <<"P", "D", "A", "T", "E">>)

\* C6: a pass of the dispatcher that finds a ready line and returns leaves
\* the buffer empty and the ready flag clear, on every path; a line with
\* neither prefix produces no output; a pass that finds no ready line
\* changes nothing and produces no output.
C6_AlwaysUnlocks ==
    [][MainLoop =>
          IF at_cmd_ready
          THEN /\ halted' = NeverReturns
               /\ ~NeverReturns => at_cmd_len' = 0 /\ ~at_cmd_ready'
               /\ (~IsRT /\ ~IsAT) => (out' = <<>> /\ calls' = <<>> /\ at_cmd' = at_cmd)
          ELSE /\ UNCHANGED prog
               /\ out' = <<>>
               /\ calls' = <<>>]_vars

C6_Witness ==
    /\ Consumed(<<"X", "Y", CR>>)
    /\ at_cmd[0] = "X" /\ at_cmd[1] = "Y" /\ at_cmd[2] = NUL
    /\ out = <<>>

Handled == {"&", "+", "I", "P", "O", "S", "Z"}

\* the typed lines AT<c>... with a third character that selects no handler
UnknownLines ==
    {l \in CmdLines :
        /\ Len(l) >= 4
        /\ toupper(l[1]) = "A" /\ toupper(l[2]) = "T"
        /\ isprint(l[3]) /\ toupper(l[3]) \notin Handled
        /\ \A i \in DOMAIN l : l[i] \notin {BS, DEL}}

EscapeFrame == <<at_mode_active, at_testmode, at_plus_state, at_plus_counter>>

\* C8: the typed line AT is answered with exactly one OK, a typed line AT<c>
\* whose third character selects no handler with exactly one ERROR; neither
\* changes at_mode_active, at_testmode or the escape detector.
C8_BareAndUnknown ==
    /\ [][(MainLoop /\ Pending(<<"a", "t", CR>>))
            => (out' = <<at_ok>> /\ calls' = <<>> /\ UNCHANGED EscapeFrame)]_vars
    /\ [][\A l \in UnknownLines :
            (MainLoop /\ Pending(l))
              => (out' = <<at_error>> /\ calls' = <<>> /\ UNCHANGED EscapeFrame)]_vars

C8_Witness ==
    /\ Consumed(<<"a", "t", "?", CR>>)
    /\ out = <<at_error>>

\* the run of digits of line l from position i
RECURSIVE DigitRun(_, _)
DigitRun(l, i) ==
    IF i > Len(l) \/ ~isdigit(l[i]) THEN <<>> ELSE <<l[i]>> \o DigitRun(l, i + 1)

\* the decimal number a sequence of digits denotes
RECURSIVE Dec(_)
Dec(ds) ==
    IF ds = <<>> THEN 0
    ELSE 10 * Dec(SubSeq(ds, 1, Len(ds) - 1)) + DigitVal(ds[Len(ds)])

\* the typed lines ATS<n>? and ATS<n>=<v>
SLines ==
    {l \in CmdLines :
        /\ Len(l) >= 6
        /\ toupper(l[1]) = "A" /\ toupper(l[2]) = "T" /\ toupper(l[3]) = "S"
        /\ isdigit(l[4])
        /\ \A i \in DOMAIN l : l[i] \notin {BS, DEL}
        /\ l[4 + Len(DigitRun(l, 4))] \in {"?", "="}}

SReg(l) == Dec(DigitRun(l, 4))

SOp(l) == l[4 + Len(DigitRun(l, 4))]

SVal(l) == Dec(DigitRun(l, 5 + Len(DigitRun(l, 4))))

SetCall(l, r) ==
    <<"param_set", ToString(SReg(l)), "0", ToString(SVal(l)), r>>

\* C9: ATS0? prints what param_get(0) returns; ATS0=v is answered ERROR and
\* param_set is not called; ATSn=v with 0 < n < PARAM_MAX calls
\* param_set(n, v) once and is answered OK if that returns true, ERROR if not.
C9_RegisterZeroReadOnly ==
    [][\A l \in SLines :
          (MainLoop /\ Pending(l) /\ SReg(l) < PARAM_MAX) =>
             CASE SOp(l) = "?" ->
                    /\ calls' = <<<<"param_get", ToString(SReg(l))>>>>
                    /\ out' = <<<<"print">> \o U32Str(param[SReg(l)])>>
                    /\ param' = param
               [] SOp(l) = "=" /\ SReg(l) = 0 ->
                    /\ out' = <<at_error>>
                    /\ calls' = <<>>
                    /\ param' = param
               [] OTHER ->
                    \/ calls' = <<SetCall(l, "true")>> /\ out' = <<at_ok>>
                    \/ calls' = <<SetCall(l, "false")>> /\ out' = <<at_error>>]_vars

C9_Witness ==
    /\ Consumed(<<"A", "T", "S", "1", "=", "5", CR>>)
    /\ out = <<at_ok>>
    /\ calls = <<<<"param_set", "1", "0", "5", "true">>>>

\* C10 as claimed: ATSn? and ATSn=v with n >= PARAM_MAX are answered ERROR
\* and neither param_get nor param_set is called.
C10_Original ==
    [][\A l \in SLines :
          (MainLoop /\ Pending(l) /\ SReg(l) >= PARAM_MAX)
            => (out' = <<at_error>> /\ calls' = <<>>)]_vars

\* ------------------------------------------- the numeric lexer alone

\* the longest string of the exhaustive part of the lexer's inputs
ParseLen == 3

ParseAlphabet == {"0", "1", "9", "x", "="}

\* every string over ParseAlphabet of length n
RECURSIVE Strings(_)
Strings(n) ==
    IF n = 0 THEN {<<>>}
    ELSE {<<c>> \o t : c \in ParseAlphabet, t \in Strings(n - 1)}

\* numbers around 2^16 and 2^32
LongNumbers ==
    { <<"6", "5", "5", "3", "5">>,
      <<"6", "5", "5", "3", "6">>,
      <<"0", "0", "6", "5", "5", "3", "7", "x", "1">>,
      <<"4", "2", "9", "4", "9", "6", "7", "2", "9", "5">>,
      <<"4", "2", "9", "4", "9", "6", "7", "2", "9", "6">>,
      <<"4", "2", "9", "4", "9", "6", "7", "3", "0", "1">>,
      <<"9", "9", "9", "9", "9", "9", "9", "9", "9", "9">> }

\* the buffer that holds the string s, terminated and zero-filled
BufOf(s) == [i \in BufIdx |-> IF i < Len(s) THEN s[i + 1] ELSE NUL]

ParseBufs ==
    {BufOf(s) : s \in LongNumbers \cup UNION {Strings(n) : n \in 0 .. ParseLen}}

\* a call of at_parse_number; the value it returns is kept in out
ParseCall ==
    LET r == at_parse_number(at_cmd, idx)
    IN  /\ idx' = r.idx
        /\ out' = <<<<"return">> \o U32Str(r.val)>>
        /\ calls' = <<>>
        /\ UNCHANGED <<at_cmd, at_cmd_len, at_mode_active, at_cmd_ready, at_testmode,
                       at_plus_state, at_plus_counter, param, halted, host,
                       obs, q_run, q_line, q_ato, typed>>

\* a caller sets the cursor, as at_s, at_p, at_plus and at_command do
SetCursor ==
    /\ \E i \in BufIdx : idx' = i
    /\ out' = <<>>
    /\ calls' = <<>>
    /\ UNCHANGED <<at_cmd, at_cmd_len, at_mode_active, at_cmd_ready, at_testmode,
                   at_plus_state, at_plus_counter, param, halted, host,
                   obs, q_run, q_line, q_ato, typed>>

InitParse ==
    /\ at_cmd \in ParseBufs
    /\ at_cmd_len = 0
    /\ idx \in BufIdx
    /\ at_mode_active = TRUE
    /\ at_cmd_ready = TRUE
    /\ at_testmode = 0
    /\ at_plus_state = ATP_WAIT_FOR_IDLE
    /\ at_plus_counter = 0
    /\ param = ParamDefault
    /\ halted = FALSE
    /\ out = <<>>
    /\ calls = <<>>
    /\ host = <<>>
    /\ q_ticks = TickCap
    /\ q_plus = 0
    /\ q_src = FALSE
    /\ q_lead = FALSE
    /\ q_quiet = FALSE
    /\ q_wide = TRUE
    /\ q_run = 0
    /\ q_line = <<>>
    /\ q_ato = NoATO
    /\ typed = 0

NextParse == ParseCall \/ SetCursor

SpecParse == InitParse /\ [][NextParse]_vars

\* the buffer as a sequence
BufSeq(buf) == [k \in 1 .. AT_CMD_MAXLEN + 1 |-> buf[k - 1]]

\* the digits that start at cursor i
RunAt(buf, i) == DigitRun(BufSeq(buf), i + 1)

\* the decimal number ds modulo 2^16
RECURSIVE DecLo(_)
DecLo(ds) ==
    IF ds = <<>> THEN 0
    ELSE (DecLo(SubSeq(ds, 1, Len(ds) - 1)) * 10 + DigitVal(ds[Len(ds)])) % Half

\* the digits of the decimal number ds divided by 2^16, by long division
RECURSIVE DecShift(_)
DecShift(ds) ==
    IF ds = <<>> THEN <<>>
    ELSE LET front == SubSeq(ds, 1, Len(ds) - 1)
             t == DecLo(front) * 10 + DigitVal(ds[Len(ds)])
         IN  DecShift(front) \o <<Digits[(t \div Half) + 1]>>

\* the decimal number ds modulo 2^32, as <<hi, lo>>
DecMod32(ds) == <<DecLo(DecShift(ds)), DecLo(ds)>>

\* C11: at_parse_number leaves idx just past the longest run of digits that
\* starts at idx, on the first character that is no digit, and returns the
\* decimal value of that run modulo 2^32; where the character at idx is no
\* digit it returns 0 and leaves idx where it was; it changes nothing else.
C11_NumericLexer ==
    /\ [][ParseCall =>
            /\ idx' = idx + Len(RunAt(at_cmd, idx))
            /\ ~isdigit(at_cmd[idx'])
            /\ out' = <<<<"return">> \o U32Str(DecMod32(RunAt(at_cmd, idx)))>>
            /\ ~isdigit(at_cmd[idx]) => (idx' = idx /\ out' = <<<<"return", "0", "0">>>>)
            /\ UNCHANGED <<at_cmd, at_cmd_len, at_mode_active, at_cmd_ready,
                           at_testmode, at_plus_state, at_plus_counter, param,
                           halted>>]_vars
    /\ [](at_cmd[AT_CMD_MAXLEN] = NUL)

\* 4294967301 has been read as 5
C11_Witness ==
    /\ at_cmd = BufOf(<<"4", "2", "9", "4", "9", "6", "7", "3", "0", "1">>)
    /\ idx = 10
    /\ out = <<<<"return", "0", "5">>>>

\* the typed lines that start with RT
RTLines ==
    {l \in CmdLines :
        /\ Len(l) >= 3
        /\ toupper(l[1]) = "R" /\ toupper(l[2]) = "T"
        /\ \A i \in DOMAIN l : l[i] \notin {BS, DEL}}

\* the offsets, from 3 on, at which line l has a comma
CommaOffsets(l) == {k \in 3 .. Len(l) - 1 : l[k + 1] = ","}

FirstComma(l) == CHOOSE k \in CommaOffsets(l) : \A j \in CommaOffsets(l) : k <= j

\* what the claim says becomes of the RT line l
Forwarded(l) ==
    IF CommaOffsets(l) = {}
    THEN /\ calls' = <<<<"tdm_remote_at", Broadcast>>>>
         /\ at_cmd' = at_cmd
    ELSE /\ calls' = <<<<"tdm_remote_at",
                         ToString(Dec(DigitRun(l, FirstComma(l) + 2)))>>>>
         /\ at_cmd' = [at_cmd EXCEPT ![FirstComma(l)] = NUL]

\* C12 as claimed: whatever lines were submitted before, an RT line with no
\* comma is broadcast, one with a comma at offset 3 or later goes to the node
\* the digits after the comma name, the comma replaced by a terminator; no
\* OK and no ERROR is printed.
C12_Original ==
    [][\A l \in RTLines :
          (MainLoop /\ Pending(l)) => (Forwarded(l) /\ out' = <<>>)]_vars

\* C12 where the buffer holds no comma beyond the terminator of the line
C12_ForwardFresh ==
    [][\A l \in RTLines :
          (MainLoop /\ Pending(l)
             /\ \A i \in BufIdx : i > at_cmd_len => at_cmd[i] # ",")
            => (Forwarded(l) /\ out' = <<>> /\ at_cmd_len' = 0 /\ ~at_cmd_ready')]_vars

\* C13: the dispatch of the line ATO turns command mode off, sets the tick
\* counter to ATP_COUNT_1S, prints nothing, empties the buffer, clears the
\* ready flag and leaves at_testmode alone; and when, after it, a silence of
\* ATP_COUNT_1S ticks, three '+' and another silence of ATP_COUNT_1S ticks
\* have gone by, command mode is active.
C13_GoOnline ==
    /\ [][(MainLoop /\ at_cmd_ready /\ HoldsATO(at_cmd, at_cmd_len))
            => /\ ~at_mode_active'
               /\ at_plus_counter' = ATP_COUNT_1S
               /\ out' = <<>> /\ calls' = <<>>
               /\ at_cmd_len' = 0 /\ ~at_cmd_ready'
               /\ at_testmode' = at_testmode]_vars
    /\ []((q_ato.ph = "trail" /\ q_ato.t >= ATP_COUNT_1S) => at_mode_active)

C13_Witness ==
    /\ q_ato.ph = "trail" /\ q_ato.t >= ATP_COUNT_1S
    /\ at_mode_active /\ at_cmd_ready /\ HoldsAT(at_cmd, at_cmd_len)
    /\ q_ticks >= ATP_COUNT_1S /\ q_plus = 3

\* the typed lines ATPC=<d> with a pin digit and no value digit
PinLines ==
    {l \in CmdLines :
        /\ Len(l) >= 7
        /\ SubSeq(l, 1, 5) = <<"A", "T", "P", "C", "=">>
        /\ isdigit(l[6])
        /\ \A i \in DOMAIN l : l[i] \notin {BS, DEL}
        /\ Len(l) >= 8 => ~isdigit(l[8])}

\* C14 as claimed: whatever lines were submitted before, a line ATPC=<d>
\* with no value digit is answered ERROR and pins_user_set_value is not
\* called.
C14_Original ==
    [][\A l \in PinLines :
          (MainLoop /\ Pending(l)) => (out' = <<at_error>> /\ calls' = <<>>)]_vars

\* C14 where at_cmd[7] holds no digit of an earlier line
C14_NoStaleDigit ==
    [][\A l \in PinLines :
          (MainLoop /\ Pending(l) /\ ~isdigit(at_cmd[7]))
            => (out' = <<at_error>> /\ calls' = <<>>)]_vars

Armable == {ATP_WAIT_FOR_IDLE, ATP_WAIT_FOR_ENABLE}

\* C15 as claimed: every step that takes the escape state into idle or into
\* wait-for-enable leaves the counter at ATP_COUNT_1S.
C15_Original ==
    [][(at_plus_state' \in Armable /\ at_plus_state' # at_plus_state)
          => at_plus_counter' = ATP_COUNT_1S]_vars

\* C15: a received byte that leaves the escape state in idle or in
\* wait-for-enable leaves the counter at ATP_COUNT_1S, and the counter runs
\* throughout wait-for-enable; the timer's own step from wait-for-enable to
\* idle, the entry into command mode, leaves the counter stopped at 0, and
\* idle with a stopped counter is found only in command mode with no byte
\* received since.
C15_CounterReset ==
    /\ [][(Receive /\ at_plus_state' \in Armable)
            => at_plus_counter' = ATP_COUNT_1S]_vars
    /\ [][(at_plus_state = ATP_WAIT_FOR_ENABLE /\ at_plus_state' = ATP_WAIT_FOR_IDLE
             /\ ~Receive)
            => (Tick /\ at_plus_counter' = 0 /\ at_mode_active' /\ at_cmd_ready')]_vars
    /\ [](at_plus_state = ATP_WAIT_FOR_ENABLE => at_plus_counter > 0)
    /\ []((at_plus_state = ATP_WAIT_FOR_IDLE /\ at_plus_counter = 0)
            => (at_mode_active /\ q_ticks > 0))

C15_Witness ==
    /\ at_plus_state = ATP_WAIT_FOR_IDLE /\ at_plus_counter = 0
    /\ at_mode_active /\ at_cmd_ready /\ HoldsAT(at_cmd, at_cmd_len)
    /\ q_plus = 3

\* C16 as claimed: any byte received in wait-for-enable takes the detector
\* to idle.
C16_Original ==
    [][(Receive /\ at_plus_state = ATP_WAIT_FOR_ENABLE)
          => at_plus_state' = ATP_WAIT_FOR_IDLE]_vars

\* C16: a byte other than '+' received in wait-for-enable takes the
\* detector to idle; a '+' leaves it in wait-for-enable; either restarts the
\* counter at ATP_COUNT_1S.
C16_EnableOnByte ==
    [][(Receive /\ at_plus_state = ATP_WAIT_FOR_ENABLE)
          => /\ at_plus_counter' = ATP_COUNT_1S
             /\ at_plus_state' = IF q_plus' > 0 THEN ATP_WAIT_FOR_ENABLE
                                 ELSE ATP_WAIT_FOR_IDLE]_vars

\* a fourth '+' has been received in wait-for-enable
C16_Witness ==
    /\ q_lead /\ q_plus = PlusCap /\ q_ticks = 0
    /\ at_plus_state = ATP_WAIT_FOR_ENABLE /\ at_plus_counter = ATP_COUNT_1S

\* the counter runs in a seen-plus state
RunsInSeenPlus == at_plus_counter # 0 /\ at_plus_state \notin Armable

\* C17 as claimed: whenever the counter is nonzero the escape state is idle
\* or wait-for-enable, so the timer never expires in a seen-plus state.
C17_Original == ~RunsInSeenPlus

\* C17 without ATO: the escape state stays within the five defined states,
\* and the only step that starts the counter in a seen-plus state is the
\* dispatch of ATO.
C17_OnlyATO ==
    /\ [](at_plus_state \in ATP_WAIT_FOR_IDLE .. ATP_WAIT_FOR_ENABLE)
    /\ [][(~RunsInSeenPlus /\ RunsInSeenPlus')
            => (MainLoop /\ at_cmd_ready /\ IsATO)]_vars

\* the timer synthesizes the AT line in this step
Synthesis ==
    /\ Tick
    /\ at_plus_state = ATP_WAIT_FOR_ENABLE
    /\ at_plus_state' = ATP_WAIT_FOR_IDLE

\* C18 as claimed: the timer synthesizes the AT line only while command mode
\* is inactive and no line is ready.
C18_Original == [][Synthesis => (~at_mode_active /\ ~at_cmd_ready)]_vars

\* C18 in data mode: while command mode is inactive no line is ready and
\* none is being built, so a synthesis that starts command mode overwrites
\* nothing.
C18_DataMode ==
    /\ [](~at_mode_active => (~at_cmd_ready /\ at_cmd_len = 0))
    /\ [][Synthesis => (at_mode_active' /\ at_cmd_ready' /\ HoldsAT(at_cmd', at_cmd_len'))]_vars

\* the bit of x that the one-bit mask selects
BitOf(x, mask) == (x \div mask) % 2

LineClear == <<"A", "T", "&", "T", CR>>

LineRSSI == <<"A", "T", "&", "T", "=", "R", "S", "S", "I", CR>>

LineTDM == <<"A", "T", "&", "T", "=", "T", "D", "M", CR>>

\* the typed lines AT&T... with another suffix
OtherTLines ==
    {l \in CmdLines \ {LineClear, LineRSSI, LineTDM} :
        /\ Len(l) >= 5
        /\ <<toupper(l[1]), toupper(l[2]), l[3], toupper(l[4])>> = <<"A", "T", "&", "T">>
        /\ \A i \in DOMAIN l : l[i] \notin {BS, DEL}}

\* C19: at_testmode changes only in the dispatch of an AT&T line; AT&T
\* clears it, AT&T=RSSI inverts the RSSI bit and keeps the TDM bit, AT&T=TDM
\* inverts the TDM bit and keeps the RSSI bit, so that the same toggle twice
\* restores the value; any other suffix is answered ERROR and changes
\* nothing.
C19_TestMode ==
    /\ [][at_testmode' # at_testmode
            => (MainLoop /\ at_cmd_ready /\ IsAT /\ at_cmd[2] = "&" /\ at_cmd[3] = "T")]_vars
    /\ [][(MainLoop /\ Pending(LineClear)) => at_testmode' = 0]_vars
    /\ [][(MainLoop /\ Pending(LineRSSI))
            => /\ BitOf(at_testmode', AT_TEST_RSSI) # BitOf(at_testmode, AT_TEST_RSSI)
               /\ BitOf(at_testmode', AT_TEST_TDM) = BitOf(at_testmode, AT_TEST_TDM)
               /\ at_testmode' \in 0 .. AT_TEST_RSSI + AT_TEST_TDM]_vars
    /\ [][(MainLoop /\ Pending(LineTDM))
            => /\ BitOf(at_testmode', AT_TEST_TDM) # BitOf(at_testmode, AT_TEST_TDM)
               /\ BitOf(at_testmode', AT_TEST_RSSI) = BitOf(at_testmode, AT_TEST_RSSI)
               /\ at_testmode' \in 0 .. AT_TEST_RSSI + AT_TEST_TDM]_vars
    /\ [][\A l \in OtherTLines :
            (MainLoop /\ Pending(l))
              => (out' = <<at_error>> /\ at_testmode' = at_testmode)]_vars

\* AT&T=RSSI submitted for the second time has restored at_testmode
C19_Witness ==
    /\ Consumed(LineRSSI)
    /\ typed = MaxLines
    /\ at_testmode = 0

\* C20: at_mode_active turns from false to true only in a timer tick; at
\* that tick the last three or more bytes the detector saw were all '+', and
\* the detector saw no byte in the ATP_COUNT_1S ticks before it (the ticks
\* since the last byte and the ticks the counter had still to run add up to
\* at least ATP_COUNT_1S); no received byte and no dispatched command turns
\* it on.
C20_TrailingGuard ==
    /\ [][(~at_mode_active /\ at_mode_active')
            => /\ Tick
               /\ q_plus >= 3
               /\ at_plus_state = ATP_WAIT_FOR_ENABLE
               /\ q_ticks + at_plus_counter >= ATP_COUNT_1S
               /\ q_ticks' >= ATP_COUNT_1S]_vars
    /\ [][(Receive \/ MainLoop) => (at_mode_active' => at_mode_active)]_vars

\* command mode entered after four or more '+'
C20_Witness ==
    /\ at_mode_active /\ at_cmd_ready /\ HoldsAT(at_cmd, at_cmd_len)
    /\ q_src /\ q_plus = PlusCap /\ q_ticks >= ATP_COUNT_1S
    /\ at_plus_state = ATP_WAIT_FOR_IDLE /\ at_plus_counter = 0

====
